---------------------------- MODULE Spec2Model ----------------------------
(***************************************************************************)
(* Interview turn controller of InQuiz-Backend.                            *)
(*                                                                         *)
(* State: the interviews collection of the document store (db) and the     *)
(* process-wide table VoiceInterviewManager.active_interviews (active).    *)
(* One action per operation of VoiceInterviewManager and per route of      *)
(* routes.py that writes an interview document.  Each action is the whole  *)
(* handler, run without an overlapping call on the same session.           *)
(*                                                                         *)
(* last and encouraged record what happened and are read by no handler:    *)
(* last is the latest request with what it returned, encouraged counts,    *)
(* per session, the encourage-class turns that kept listening since the    *)
(* question the session is on was asked.                                   *)
(*                                                                         *)
(* Abstractions: timestamps are left out of transcript events and of       *)
(* documents (started_at is not modelled, completed_at is set / not set);  *)
(* the analysis payload of a ResponseRecord is left out; the text of an    *)
(* AI reply is the name of the template or gateway text it comes from; a   *)
(* question is its id.                                                     *)
(***************************************************************************)
EXTENDS Integers, Sequences, FiniteSets, TLC

VARIABLES db, active, last, requests, encouraged

vars == <<db, active, last, requests, encouraged>>

-----------------------------------------------------------------------------
(* Bounds of the model *)

\* Requests served in one behaviour of Spec.
MaxRequests == 4

\* Requests served in one behaviour of ControllerSpec.
MaxControllerRequests == 3

-----------------------------------------------------------------------------
(* Text: Python str operations, on TLC strings (sequences of characters) *)

UpperChars == "ABCDEFGHIJKLMNOPQRSTUVWXYZ"

LowerChars == "abcdefghijklmnopqrstuvwxyz"

\* str.lower() of a single character
LowerChar(c) ==
    IF \E i \in 1..Len(UpperChars) : SubSeq(UpperChars, i, i) = c
    THEN LET i == CHOOSE j \in 1..Len(UpperChars) : SubSeq(UpperChars, j, j) = c
         IN  SubSeq(LowerChars, i, i)
    ELSE c

RECURSIVE Lower(_)
\* str.lower()
Lower(t) ==
    IF Len(t) = 0 THEN ""
    ELSE LowerChar(SubSeq(t, 1, 1)) \o Lower(SubSeq(t, 2, Len(t)))

\* c is whitespace for str.split() and str.strip()
IsSpace(c) == c = " "

\* `p in t` for strings
Contains(p, t) ==
    \E i \in 1..(Len(t) - Len(p) + 1) : SubSeq(t, i, i + Len(p) - 1) = p

\* any(phrase in t for phrase in phrases)
AnyIn(phrases, t) == \E p \in phrases : Contains(p, t)

\* len(t.split()): the number of maximal runs of non-whitespace characters
WordCount(t) ==
    Cardinality({i \in 1..Len(t) :
        /\ ~IsSpace(SubSeq(t, i, i))
        /\ (i = 1 \/ IsSpace(SubSeq(t, i - 1, i - 1)))})

\* A variant of IsBlank that does not strip
IsEmpty(t) == Len(t) = 0

\* not t.strip()
IsBlank(t) == \A i \in 1..Len(t) : IsSpace(SubSeq(t, i, i))

-----------------------------------------------------------------------------
(* ConversationManager.process_user_input: the phrase sets *)

RepeatPhrases ==
    {"repeat", "again", "say that again", "repeat question",
     "what was the question", "can you repeat"}

ClarifyPhrases ==
    {"clarify", "explain", "what do you mean", "unclear", "confused",
     "don't understand", "rephrase"}

\* A variant of SkipPhrases without the phrases of not knowing
SkipPhrasesOfSkipping == {"skip", "next question", "pass"}

SkipPhrases ==
    {"skip", "next question", "pass", "i don't know", "no idea", "not sure"}

PacePhrases == {"slow down", "too fast", "speak slower"}

ExamplePhrases ==
    {"example", "give me an example", "for instance", "what do you mean by"}

\* _fallback_intelligent_analysis: wrong_indicators
WrongIndicators ==
    {"i dont know", "no idea", "not sure", "maybe", "i think", "probably"}

\* len(user_input.split()) < 3
ShortWords == 3

\* word_count < 5
PoorWords == 5

\* word_count < 15
FairWords == 15

\* follow_up_count >= 2
FollowUpCap == 2

\* A variant of TooShort that finds no utterance too short
NeverTooShort(u) == FALSE

\* len(user_input.split()) < 3
TooShort(u) == WordCount(u) < ShortWords

\* A variant of Intent that tests the skip phrases before the others
IntentSkipFirst(u) ==
    LET t == Lower(u)
    IN  IF AnyIn(SkipPhrases, t) THEN "skip_question"
        ELSE IF AnyIn(RepeatPhrases, t) THEN "repeat_question"
        ELSE IF AnyIn(ClarifyPhrases, t) THEN "clarify_question"
        ELSE IF AnyIn(PacePhrases, t) THEN "adjust_pace"
        ELSE IF AnyIn(ExamplePhrases, t) THEN "provide_example"
        ELSE IF TooShort(u) THEN "encourage_elaboration"
        ELSE "semantic"

\* The intent of an utterance: the first matching test, in the order of the
\* code; "semantic" when none matches (the gateway analysis is then called).
Intent(u) ==
    LET t == Lower(u)
    IN  IF AnyIn(RepeatPhrases, t) THEN "repeat_question"
        ELSE IF AnyIn(ClarifyPhrases, t) THEN "clarify_question"
        ELSE IF AnyIn(SkipPhrases, t) THEN "skip_question"
        ELSE IF AnyIn(PacePhrases, t) THEN "adjust_pace"
        ELSE IF AnyIn(ExamplePhrases, t) THEN "provide_example"
        ELSE IF TooShort(u) THEN "encourage_elaboration"
        ELSE "semantic"


-----------------------------------------------------------------------------
(* Python dicts: functions whose domain is the set of keys present *)

\* d[k] = v
Put(d, k, v) == (k :> v) @@ d

\* d.get(k, default)
Get(d, k, default) == IF k \in DOMAIN d THEN d[k] ELSE default

\* A variant of Del that empties the dict
DelAll(d, k) == [x \in {} |-> d[x]]

\* del d[k]
Del(d, k) == [x \in DOMAIN d \ {k} |-> d[x]]

-----------------------------------------------------------------------------
(* The text generation gateway: what one generate_content call does *)

\* The action tags a structured judgment may carry: the six the prompt asks
\* for, tags of the controller's own intents, and a tag nobody knows.
JudgmentActions ==
    {"continue", "follow_up", "provide_feedback", "encourage_more",
     "correct_misunderstanding", "move_next",
     "repeat_question", "skip_question", "unknown_tag"}

\* What the gateway may do on one call: raise, return text with no {...},
\* return text whose {...} is not JSON, return {}, or return a JSON object
\* (any of whose keys may be missing).
GatewayOutcomes ==
    {[kind |-> "raise"], [kind |-> "no_json"], [kind |-> "bad_json"],
     [kind |-> "json", object |-> <<>>]}
    \cup {[kind |-> "json", object |-> [action |-> a, next_action |-> n]] :
            a \in JudgmentActions,
            n \in {"continue_listening", "move_to_next_question"}}
    \cup {[kind |-> "json", object |-> [response_quality |-> "excellent"]],
          [kind |-> "json", object |-> [action |-> "encourage_more"]],
          [kind |-> "json",
           object |-> [ai_response |-> "gateway_reply",
                       next_action |-> "continue_listening"]]}

\* ConversationManager._parse_json_response: {} unless the text holds a
\* {...} that json.loads accepts
ParseJsonResponse(g) == IF g.kind = "json" THEN g.object ELSE <<>>

\* A variant of FallbackIntelligentAnalysis whose limits are inclusive
FallbackWithInclusiveLimits(u) ==
    LET word_count == WordCount(u)
        has_uncertainty == AnyIn(WrongIndicators, Lower(u))
    IN  IF word_count <= PoorWords \/ has_uncertainty
        THEN [action |-> "provide_feedback", response |-> "fallback_uncertain",
              continue_listening |-> TRUE, needs_follow_up |-> TRUE,
              response_quality |-> "poor"]
        ELSE IF word_count <= FairWords
        THEN [action |-> "encourage_more", response |-> "fallback_good_start",
              continue_listening |-> TRUE, needs_follow_up |-> TRUE,
              response_quality |-> "fair"]
        ELSE [action |-> "continue", response |-> "fallback_comprehensive",
              continue_listening |-> FALSE, needs_follow_up |-> FALSE,
              response_quality |-> "good"]

\* ConversationManager._fallback_intelligent_analysis
FallbackIntelligentAnalysis(u) ==
    LET word_count == WordCount(u)
        has_uncertainty == AnyIn(WrongIndicators, Lower(u))
    IN  IF word_count < PoorWords \/ has_uncertainty
        THEN [action |-> "provide_feedback", response |-> "fallback_uncertain",
              continue_listening |-> TRUE, needs_follow_up |-> TRUE,
              response_quality |-> "poor"]
        ELSE IF word_count < FairWords
        THEN [action |-> "encourage_more", response |-> "fallback_good_start",
              continue_listening |-> TRUE, needs_follow_up |-> TRUE,
              response_quality |-> "fair"]
        ELSE [action |-> "continue", response |-> "fallback_comprehensive",
              continue_listening |-> FALSE, needs_follow_up |-> FALSE,
              response_quality |-> "good"]

\* ConversationManager._clarify_question: the gateway's text, or the template
ClarifyQuestion(g) ==
    IF g.kind = "raise" THEN "clarify_template" ELSE "gateway_clarification"

\* ConversationManager._provide_example: the gateway's text, or the template
ProvideExample(g) ==
    IF g.kind = "raise" THEN "example_template" ELSE "gateway_example"

-----------------------------------------------------------------------------
(* Inputs of the requests *)

\* Utterances a candidate submits: one per intent of process_user_input,
\* answers of fewer than 5, fewer than 15 and at least 15 words, a
\* whitespace-only one and the empty one.
Utterances ==
    {"can you repeat that?",
     "I am confused",
     "I don't know, maybe not sure",
     "slow down",
     "for instance",
     "Yes sure",
     "it went well overall",
     "we shipped the billing service in May",
     "I led the team and we built and shipped the new search service in three months",
     " ",
     ""}

\* response_time values of a request
ResponseTimes == {30}

\* Utterances given to the resolver alone: utterances that match the
\* phrases of several intents, or of one in capitals or inside a longer
\* word; answers around the limits of 3, 5 and 15 words, with and without
\* an uncertainty marker.
ResolverUtterances ==
    {"can you repeat and explain that",
     "please explain or skip it",
     "skip this and slow down",
     "slow down, for instance now",
     "example",
     "REPEAT",
     "I passed the exam last year",
     "Fine",
     "it went well",
     "I dont know",
     "I think it was fine",
     "Maybe it was around two thousand",
     "we shipped the billing service",
     "we built the new search service and shipped it to all users in May",
     "we built the new search service and shipped it to all users in May too",
     "I led the team and we probably built and shipped the new search service in three months"}

\* Every utterance of the model
AllUtterances == Utterances \cup ResolverUtterances

\* Intent, for each utterance of the model
IntentOf == [u \in AllUtterances |-> Intent(u)]

\* _fallback_intelligent_analysis, for each utterance of the model
FallbackOf == [u \in AllUtterances |-> FallbackIntelligentAnalysis(u)]

\* The judgment built from a parsed, non-empty JSON object
JudgmentOf(result) ==
    [action |-> Get(result, "action", "continue"),
     response |-> Get(result, "ai_response", "default_thank_you"),
     needs_follow_up |-> Get(result, "needs_follow_up", FALSE),
     continue_listening |->
         Get(result, "next_action", "move_to_next_question")
             = "continue_listening",
     response_quality |-> Get(result, "response_quality", "fair")]

\* ConversationManager._analyze_answer_intelligently
AnalyzeAnswerIntelligently(u, g) ==
    IF g.kind = "raise" \/ DOMAIN ParseJsonResponse(g) = {}
    THEN FallbackOf[u]
    ELSE JudgmentOf(ParseJsonResponse(g))

\* ConversationManager.process_user_input, after the intent tests
ResolveIntent(intent, u, g) ==
    CASE intent = "repeat_question" ->
            [action |-> "repeat_question", response |-> "repeat_template",
             continue_listening |-> TRUE, needs_follow_up |-> FALSE]
      [] intent = "clarify_question" ->
            [action |-> "clarify_question", response |-> ClarifyQuestion(g),
             continue_listening |-> TRUE, needs_follow_up |-> FALSE]
      [] intent = "skip_question" ->
            [action |-> "skip_question", response |-> "skip_template",
             continue_listening |-> TRUE, needs_follow_up |-> FALSE]
      [] intent = "adjust_pace" ->
            [action |-> "adjust_pace", response |-> "pace_template",
             continue_listening |-> TRUE, needs_follow_up |-> FALSE]
      [] intent = "provide_example" ->
            [action |-> "provide_example", response |-> ProvideExample(g),
             continue_listening |-> TRUE, needs_follow_up |-> FALSE]
      [] intent = "encourage_elaboration" ->
            [action |-> "encourage_elaboration",
             response |-> "elaborate_template",
             continue_listening |-> TRUE, needs_follow_up |-> TRUE]
      [] OTHER -> AnalyzeAnswerIntelligently(u, g)

\* ConversationManager.process_user_input
ProcessUserInput(u, g) == ResolveIntent(IntentOf[u], u, g)

\* process_user_input calls the gateway for u
CallsGateway(u) ==
    IntentOf[u] \in {"clarify_question", "provide_example", "semantic"}

\* _clarify_question, _provide_example and _analyze_answer_intelligently
\* are the only callers of the gateway: for any other utterance it is not
\* called, and gs[u] are the outcomes considered when it is.
GatewayCalls(u, gs) ==
    IF CallsGateway(u)
    THEN gs[u]
    ELSE {[kind |-> "not_called"]}

-----------------------------------------------------------------------------
(* The interviews collection *)

\* Ids a request may name: the stored sessions and one id of no document.
StoredIds == {"s1", "s2"}

SessionIds == StoredIds \cup {"s0"}

\* The question ids of each generated session (AIQuestionGenerator gives
\* the ids tech_<i>, behavioral_<i>, ...; a generation may yield none).
QuestionsOf(s) ==
    CASE s = "s1" -> <<"tech_0", "behavioral_0">>
      [] s = "s2" -> <<"tech_0">>
      [] OTHER    -> <<>>

\* The document generate_questions inserts: InterviewSession(status="ready")
NewDocument(s) ==
    [questions |-> QuestionsOf(s), responses |-> <<>>, status |-> "ready",
     completed_at |-> "None"]

\* db.interviews.update_one(filter, {"$set": fields}): no match, no change
UpdateSet(store, s, fields) ==
    IF s \in DOMAIN store THEN [store EXCEPT ![s] = fields @@ @] ELSE store

\* db.interviews.update_one(filter, {"$push": {"responses": r}})
UpdatePush(store, s, r) ==
    IF s \in DOMAIN store
    THEN [store EXCEPT ![s] = Put(@, "responses", Append(@.responses, r))]
    ELSE store

-----------------------------------------------------------------------------
(* VoiceInterviewManager *)

MetaActions ==
    {"repeat_question", "clarify_question", "provide_example", "adjust_pace"}

EncourageActions == {"encourage_elaboration", "encourage_more", "follow_up"}

AdvanceActions == {"continue", "move_next"}

\* A transcript event carrying a question id
QEvent(type, text, qid) == [type |-> type, text |-> text, question_id |-> qid]

\* A transcript event without one (ai_transition, ai_completion)
PlainEvent(type, text) == [type |-> type, text |-> text]

\* A variant of NewEntry that starts with a follow-up counted
NewEntryWithFollowUp(qs) ==
    [current_question_index |-> 0,
     questions |-> qs,
     conversation |-> <<>>,
     status |-> "active",
     follow_up_count |-> 1,
     current_question_attempts |-> 0]

\* The entry start_voice_interview stores in active_interviews
NewEntry(qs) ==
    [current_question_index |-> 0,
     questions |-> qs,
     conversation |-> <<>>,
     status |-> "active",
     follow_up_count |-> 0,
     current_question_attempts |-> 0]

\* VoiceInterviewManager.start_voice_interview.  find_ok: find_one returns
\* (it raises otherwise).  The result None is the empty dict <<>>.  The
\* entry is stored before questions[0] is read, so it stays when the
\* question list is empty and the read raises.
StartVoiceInterview(tbl, store, s, find_ok) ==
    IF ~find_ok \/ s \notin DOMAIN store
    THEN [active |-> tbl, result |-> <<>>]
    ELSE IF Len(store[s].questions) = 0
    THEN [active |-> Put(tbl, s, NewEntry(store[s].questions)),
          result |-> <<>>]
    ELSE [active |->
              Put(tbl, s,
                  [NewEntry(store[s].questions) EXCEPT !.conversation =
                      <<QEvent("ai_question", store[s].questions[1],
                               store[s].questions[1])>>]),
          result |->
              [message |-> "Voice interview started",
               current_question |-> store[s].questions[1],
               question_index |-> 0,
               total_questions |-> Len(store[s].questions)]]

\* A variant of CompleteInterview that keeps the entry
CompleteInterviewKeepingEntry(tbl, store, s, update_ok) ==
    IF s \in DOMAIN tbl /\ update_ok
    THEN [active |-> tbl,
          db |-> UpdateSet(store, s,
                   [status |-> "completed",
                    conversation |-> tbl[s].conversation,
                    completed_at |-> "set"]),
          result |-> TRUE]
    ELSE [active |-> tbl, db |-> store, result |-> FALSE]

\* VoiceInterviewManager.complete_interview.  update_ok: update_one returns.
CompleteInterview(tbl, store, s, update_ok) ==
    IF s \in DOMAIN tbl /\ update_ok
    THEN [active |-> Del(tbl, s),
          db |-> UpdateSet(store, s,
                   [status |-> "completed",
                    conversation |-> tbl[s].conversation,
                    completed_at |-> "set"]),
          result |-> TRUE]
    ELSE [active |-> tbl, db |-> store, result |-> FALSE]

\* A variant of GetConversation that never reads the document
GetConversationOfEntry(tbl, store, s, find_ok) ==
    IF s \in DOMAIN tbl THEN tbl[s].conversation ELSE <<>>

\* VoiceInterviewManager.get_conversation.  find_ok: find_one returns (the
\* error is printed and [] returned otherwise).
GetConversation(tbl, store, s, find_ok) ==
    IF s \in DOMAIN tbl THEN tbl[s].conversation
    ELSE IF find_ok /\ s \in DOMAIN store /\ "conversation" \in DOMAIN store[s]
    THEN store[s].conversation
    ELSE <<>>

\* A variant of StepIndex that passes over a question
StepIndexByTwo(interview_data) ==
    [interview_data EXCEPT !.current_question_index = @ + 2,
                           !.follow_up_count = 0]

\* A variant of StepIndex that keeps the follow-up counter
StepIndexKeepingCount(interview_data) ==
    [interview_data EXCEPT !.current_question_index = @ + 1]

\* interview_data["current_question_index"] += 1
\* interview_data["follow_up_count"] = 0
StepIndex(interview_data) ==
    [interview_data EXCEPT !.current_question_index = @ + 1,
                           !.follow_up_count = 0]

\* A variant of HasNextQuestion that gives up one question early
HasQuestionAfterNext(interview_data) ==
    interview_data.current_question_index + 1 < Len(interview_data.questions)

\* next_index < len(interview_data["questions"]), on the stepped entry
HasNextQuestion(interview_data) ==
    interview_data.current_question_index < Len(interview_data.questions)

\* A variant of AskNextQuestion that appends the transition only
AnnounceNextQuestion(interview_data, next_question) ==
    [interview_data EXCEPT !.conversation =
        Append(@, PlainEvent("ai_transition", "transition_message"))]

\* The ai_transition event and the ai_question event of the next question,
\* appended to the transcript
AskNextQuestion(interview_data, next_question) ==
    [interview_data EXCEPT !.conversation =
        @ \o <<PlainEvent("ai_transition", "transition_message"),
               QEvent("ai_question", next_question, next_question)>>]

\* A variant of ReportNextQuestion that leaves has_follow_up as it is
ReportNextQuestionKeepingFlag(response_data, next_question, next_index) ==
    [next_question |-> next_question,
     question_index |-> next_index,
     transition_message |-> "transition_message"]
    @@ response_data

\* response_data["next_question"] = next_question, and question_index,
\* has_follow_up = False and transition_message with it
ReportNextQuestion(response_data, next_question, next_index) ==
    [next_question |-> next_question,
     question_index |-> next_index,
     has_follow_up |-> FALSE,
     transition_message |-> "transition_message"]
    @@ response_data

\* VoiceInterviewManager._move_to_next_question, up to its call of
\* complete_interview: the entry and the result after it, and whether it
\* goes on to complete the interview.
MoveToNextQuestion(interview_data, response_data) ==
    LET moved == StepIndex(interview_data)
        next_index == moved.current_question_index
    IN  IF HasNextQuestion(moved)
        THEN [data |->
                  AskNextQuestion(moved,
                                  interview_data.questions[next_index + 1]),
              response |->
                  ReportNextQuestion(response_data,
                                     interview_data.questions[next_index + 1],
                                     next_index),
              completes |-> FALSE]
        ELSE [data |->
                  [moved EXCEPT !.status = "completed",
                                !.conversation =
                                    Append(@, PlainEvent("ai_completion",
                                                         "completion_message"))],
              response |->
                  [interview_completed |-> TRUE,
                   completion_message |-> "completion_message"]
                  @@ response_data,
              completes |-> TRUE]

\* A variant of SaveResponseAnalysis that records no response time
SaveResponseUntimed(store, s, current_question, u, response_time, cr, update_ok) ==
    IF update_ok
    THEN UpdatePush(store, s,
            [question_id |-> current_question,
             question_text |-> current_question,
             user_response |-> u,
             response_time |-> 0,
             conversation_quality |-> Get(cr, "response_quality", "fair")])
    ELSE store

\* VoiceInterviewManager._save_response_analysis.  update_ok: update_one
\* returns; when it raises the error is printed and nothing is pushed.
SaveResponseAnalysis(store, s, current_question, u, response_time, cr, update_ok) ==
    IF update_ok
    THEN UpdatePush(store, s,
            [question_id |-> current_question,
             question_text |-> current_question,
             user_response |-> u,
             response_time |-> response_time,
             conversation_quality |-> Get(cr, "response_quality", "fair")])
    ELSE store

\* The branch of process_voice_response's if / elif chain a conversation
\* result takes
DispatchBranch(cr) ==
    IF Get(cr, "action", "continue") \in MetaActions THEN "meta"
    ELSE IF Get(cr, "action", "continue") \in EncourageActions
            /\ Get(cr, "continue_listening", FALSE) THEN "encourage"
    ELSE IF Get(cr, "action", "continue") = "skip_question" THEN "skip"
    ELSE IF Get(cr, "action", "continue") \in AdvanceActions
            \/ ~Get(cr, "continue_listening", TRUE) THEN "finish"
    ELSE "other"

\* A variant of ReplyEvent that gives every reply the type ai_response
ReplyEventPlain(action, text, qid) == QEvent("ai_response", text, qid)

\* The AI reply event of a turn: ai_repeat / ai_clarification for the meta
\* actions, ai_response for every other action
ReplyEvent(action, text, qid) ==
    IF action \notin MetaActions THEN QEvent("ai_response", text, qid)
    ELSE IF action = "repeat_question" THEN QEvent("ai_repeat", text, qid)
    ELSE QEvent("ai_clarification", text, qid)

\* interview_data["follow_up_count"] += 1
CountFollowUp(interview_data) ==
    [interview_data EXCEPT !.follow_up_count = @ + 1]

\* A variant of CapReached that lets the counter pass the cap
CapExceeded(interview_data) == interview_data.follow_up_count > FollowUpCap

\* interview_data["follow_up_count"] >= 2
CapReached(interview_data) == interview_data.follow_up_count >= FollowUpCap

\* The end of _move_to_next_question: complete_interview when no question
\* is left.  m: what MoveToNextQuestion gave; tbl holds m.data already.
FinishMove(tbl, store, s, m, complete_ok) ==
    IF m.completes
    THEN [active |-> CompleteInterview(tbl, store, s, complete_ok).active,
          db |-> CompleteInterview(tbl, store, s, complete_ok).db,
          data |-> m.data, result |-> m.response]
    ELSE [active |-> tbl, db |-> store, data |-> m.data, result |-> m.response]

\* await self._move_to_next_question(interview_data, response_data, id)
Advance(tbl, store, s, interview_data, response_data, complete_ok) ==
    FinishMove(Put(tbl, s, MoveToNextQuestion(interview_data, response_data).data),
               store, s, MoveToNextQuestion(interview_data, response_data),
               complete_ok)

\* A turn that stays on the question: the entry is kept as it is now
Stay(tbl, store, s, interview_data, response_data) ==
    [active |-> Put(tbl, s, interview_data), db |-> store,
     data |-> interview_data, result |-> response_data]

\* response_data with has_follow_up and follow_up_question set
Pending(cr) ==
    [ai_response |-> cr.response,
     has_follow_up |-> TRUE,
     follow_up_question |-> cr.response]

\* A variant of MetaTurn that counts the request as a follow-up
MetaTurnCounted(tbl, store, s, heard, cr) ==
    Stay(tbl, store, s, CountFollowUp(heard),
         [continue_same_question |-> TRUE] @@ Pending(cr))

\* The branch of repeat_question, clarify_question, provide_example and
\* adjust_pace.  heard: the entry with the user_response event and the AI
\* reply event appended.
MetaTurn(tbl, store, s, heard, cr) ==
    Stay(tbl, store, s, heard, [continue_same_question |-> TRUE] @@ Pending(cr))

\* The branch of encourage_elaboration, encourage_more and follow_up with
\* continue_listening
EncourageTurn(tbl, store, s, heard, cr, complete_ok) ==
    IF CapReached(CountFollowUp(heard))
    THEN Advance(tbl, store, s, CountFollowUp(heard), Pending(cr), complete_ok)
    ELSE Stay(tbl, store, s, CountFollowUp(heard), Pending(cr))

\* The branch of skip_question
SkipTurn(tbl, store, s, heard, cr, complete_ok) ==
    Advance(tbl, store, s, heard, [ai_response |-> cr.response], complete_ok)

\* A variant of FinishTurn that stays on the question when the save fails
FinishTurnBlocking(tbl, store, s, heard, current_question, u, response_time, cr, save_ok, complete_ok) ==
    IF save_ok
    THEN Advance(tbl,
                 SaveResponseAnalysis(store, s, current_question, u,
                                      response_time, cr, save_ok),
                 s, heard, [ai_response |-> cr.response], complete_ok)
    ELSE Stay(tbl, store, s, heard, [ai_response |-> cr.response])

\* The branch of continue and move_next, and of a judgment that does not
\* keep listening
FinishTurn(tbl, store, s, heard, current_question, u, response_time, cr, save_ok, complete_ok) ==
    Advance(tbl,
            SaveResponseAnalysis(store, s, current_question, u,
                                 response_time, cr, save_ok),
            s, heard, [ai_response |-> cr.response], complete_ok)

\* A variant of OtherTurn that counts the turn as a follow-up
OtherTurnCounted(tbl, store, s, heard, cr) ==
    Stay(tbl, store, s, CountFollowUp(heard), Pending(cr))

\* The else branch
OtherTurn(tbl, store, s, heard, cr) ==
    Stay(tbl, store, s, heard, Pending(cr))

\* process_voice_response from its if / elif chain on.  save_error: the
\* "Error saving response analysis" line was printed.
Dispatch(tbl, store, s, heard, current_question, u, response_time, cr, save_ok, complete_ok) ==
    CASE DispatchBranch(cr) = "meta" ->
           [save_error |-> FALSE] @@ MetaTurn(tbl, store, s, heard, cr)
      [] DispatchBranch(cr) = "encourage" ->
           [save_error |-> FALSE]
           @@ EncourageTurn(tbl, store, s, heard, cr, complete_ok)
      [] DispatchBranch(cr) = "skip" ->
           [save_error |-> FALSE]
           @@ SkipTurn(tbl, store, s, heard, cr, complete_ok)
      [] DispatchBranch(cr) = "finish" ->
           [save_error |-> ~save_ok]
           @@ FinishTurn(tbl, store, s, heard, current_question, u,
                         response_time, cr, save_ok, complete_ok)
      [] OTHER ->
           [save_error |-> FALSE] @@ OtherTurn(tbl, store, s, heard, cr)

\* A variant of Heard that appends no AI reply event
HeardWithoutReply(interview_data, current_question, u, cr) ==
    [interview_data EXCEPT !.conversation =
        Append(@, QEvent("user_response", u, current_question))]

\* The entry after the user_response event and the AI reply event
Heard(interview_data, current_question, u, cr) ==
    [interview_data EXCEPT !.conversation =
        @ \o <<QEvent("user_response", u, current_question),
               ReplyEvent(Get(cr, "action", "continue"), cr.response,
                          current_question)>>]

\* process_voice_response once the session and its current question are
\* found
Turn(tbl, store, s, current_question, u, response_time, cr, save_ok, complete_ok) ==
    [cr |-> cr]
    @@ Dispatch(tbl, store, s, Heard(tbl[s], current_question, u, cr),
                current_question, u, response_time, cr, save_ok, complete_ok)

\* A variant of NotFound that answers as for a session out of questions
NotFoundAsNoMoreQuestions(tbl, store) ==
    [active |-> tbl, db |-> store, data |-> <<>>, cr |-> <<>>,
     save_error |-> FALSE,
     result |-> [error |-> "No more questions available"]]

\* return {"error": "Interview not found or not active"}
NotFound(tbl, store) ==
    [active |-> tbl, db |-> store, data |-> <<>>, cr |-> <<>>,
     save_error |-> FALSE,
     result |-> [error |-> "Interview not found or not active"]]

\* VoiceInterviewManager.process_voice_response.  g: what the gateway does
\* if called; save_ok, complete_ok: whether the update_one of
\* _save_response_analysis and of complete_interview return.
ProcessVoiceResponse(tbl, store, s, u, response_time, g, save_ok, complete_ok) ==
    IF s \notin DOMAIN tbl
    THEN NotFound(tbl, store)
    ELSE IF tbl[s].current_question_index >= Len(tbl[s].questions)
    THEN [active |-> tbl, db |-> store, data |-> tbl[s], cr |-> <<>>,
          save_error |-> FALSE,
          result |-> [error |-> "No more questions available"]]
    ELSE Turn(tbl, store, s,
              tbl[s].questions[tbl[s].current_question_index + 1],
              u, response_time, ProcessUserInput(u, g), save_ok, complete_ok)

-----------------------------------------------------------------------------
(* The state machine *)

\* last: the latest request: the route, the session id, the HTTP status,
\* the body the controller returned, and for a turn what it resolved.
Request(op, s, status, result, turn) ==
    [op |-> op, id |-> s, status |-> status, result |-> result, turn |-> turn]

Init ==
    /\ db = [s \in StoredIds |-> NewDocument(s)]
    /\ active = <<>>
    /\ last = Request("none", "none", 0, <<>>, <<>>)
    /\ requests = 0
    /\ encouraged = [s \in SessionIds |-> 0]

\* The route after voice_manager.start_voice_interview returned r
StartVoiceStep(s, r, update_ok) ==
    /\ active' = r.active
    /\ db' = IF DOMAIN r.result # {} /\ update_ok
             THEN UpdateSet(db, s, [status |-> "in_progress"])
             ELSE db
    /\ last' = Request("start", s,
                       IF DOMAIN r.result # {} /\ update_ok THEN 200 ELSE 500,
                       r.result, <<>>)
    /\ requests' = requests + 1
    /\ encouraged' = IF r.active # active
                      THEN [encouraged EXCEPT ![s] = 0]
                      ELSE encouraged

\* POST /interview/{id}/start-voice
StartVoice(s) ==
    \E find_ok, update_ok \in BOOLEAN :
        StartVoiceStep(s, StartVoiceInterview(active, db, s, find_ok), update_ok)

\* What a turn saw: the utterance and response time, whether the gateway
\* was called, the resolver's
\* judgment, the branch taken, the index and the follow-up counter before
\* it, whether the save printed an error, and the entry as the turn left it
\* (still referenced by the handler when the table no longer holds it).
TurnRecord(s, u, response_time, r) ==
    IF "error" \in DOMAIN r.result
    THEN [response |-> u, response_time |-> response_time,
          gateway_called |-> FALSE]
    ELSE [response |-> u, response_time |-> response_time,
          gateway_called |-> CallsGateway(u),
          action |-> Get(r.cr, "action", "continue"),
          continue_listening |-> r.cr.continue_listening,
          branch |-> DispatchBranch(r.cr),
          index_before |-> active[s].current_question_index,
          follow_up_before |-> active[s].follow_up_count,
          save_error |-> r.save_error,
          data |-> r.data]

\* The route after voice_manager.process_voice_response returned r
VoiceResponseStep(s, u, response_time, r) ==
    /\ active' = r.active
    /\ db' = r.db
    /\ requests' = requests + 1
    /\ last' = Request("submit_turn", s,
                       IF "error" \in DOMAIN r.result THEN 400 ELSE 200,
                       r.result, TurnRecord(s, u, response_time, r))
    /\ encouraged' =
         IF "error" \in DOMAIN r.result THEN encouraged
         ELSE IF r.data.current_question_index
                     # active[s].current_question_index
         THEN [encouraged EXCEPT ![s] = 0]
         ELSE IF r.cr.action \in EncourageActions /\ r.cr.continue_listening
         THEN [encouraged EXCEPT ![s] = @ + 1]
         ELSE encouraged

\* POST /interview/{id}/voice-response, the request drawn from the
\* utterances us, the gateway outcomes gs and the store outcomes oks
VoiceResponseOf(s, us, gs, oks) ==
    \E u \in us, response_time \in ResponseTimes :
         IF IsBlank(u)
         THEN /\ last' = Request("submit_turn", s, 400,
                                 [detail |-> "Empty response"],
                                 [response |-> u,
                                  response_time |-> response_time,
                                  gateway_called |-> FALSE])
              /\ requests' = requests + 1
              /\ UNCHANGED <<db, active, encouraged>>
         ELSE \E g \in GatewayCalls(u, gs), save_ok, complete_ok \in oks :
                VoiceResponseStep(s, u, response_time,
                    ProcessVoiceResponse(active, db, s, u, response_time, g,
                                         save_ok, complete_ok))

\* The route after voice_manager.complete_interview returned r
CompleteVoiceStep(s, r) ==
    /\ active' = r.active
    /\ db' = r.db
    /\ last' = Request("complete", s, IF r.result THEN 200 ELSE 500,
                       [success |-> r.result], <<>>)
    /\ requests' = requests + 1
    /\ UNCHANGED encouraged

\* POST /interview/{id}/complete-voice
CompleteVoice(s) ==
    \E update_ok \in BOOLEAN :
        CompleteVoiceStep(s, CompleteInterview(active, db, s, update_ok))

\* POST /interview/{id}/start
StartInterview(s) ==
    \E update_ok \in BOOLEAN :
        /\ db' = IF update_ok
                 THEN UpdateSet(db, s, [status |-> "in_progress"])
                 ELSE db
        /\ last' = Request("route_start", s,
                           IF update_ok /\ s \in DOMAIN db THEN 200 ELSE 500,
                           <<>>, <<>>)
        /\ requests' = requests + 1
        /\ UNCHANGED <<active, encouraged>>

\* Question ids a /response request may name
RequestQuestionIds == {"tech_0", "behavioral_0", "exp_0"}

\* The question of the document with the id the request names, if any
QuestionFound(store, s, qid) ==
    /\ s \in DOMAIN store
    /\ \E i \in 1..Len(store[s].questions) : store[s].questions[i] = qid

\* POST /interview/{id}/response
SubmitResponse(s) ==
    \E qid \in RequestQuestionIds, update_ok \in BOOLEAN :
        /\ db' = IF QuestionFound(db, s, qid) /\ update_ok
                 THEN UpdatePush(db, s,
                        [question_id |-> qid, question_text |-> qid,
                         user_response |-> "it went well overall",
                         response_time |-> 0])
                 ELSE db
        /\ last' = Request("route_response", s,
                           IF QuestionFound(db, s, qid) /\ update_ok
                           THEN 200 ELSE 500,
                           [question_id |-> qid], <<>>)
        /\ requests' = requests + 1
        /\ UNCHANGED <<active, encouraged>>

\* POST /interview/{id}/complete
CompleteInterviewRoute(s) ==
    \E update_ok \in BOOLEAN :
        /\ db' = IF update_ok
                 THEN UpdateSet(db, s, [status |-> "completed",
                                        completed_at |-> "set"])
                 ELSE db
        /\ last' = Request("route_complete", s,
                           IF update_ok /\ s \in DOMAIN db THEN 200 ELSE 500,
                           <<>>, <<>>)
        /\ requests' = requests + 1
        /\ UNCHANGED <<active, encouraged>>

\* The requests of Spec: one utterance for each way a turn can go (stay,
\* count a follow-up, skip, finish, be refused), the gateway failing or
\* asking to keep listening with or without a follow-up.
CoreUtterances ==
    {"can you repeat that?",
     "I don't know, maybe not sure",
     "Yes sure",
     "I led the team and we built and shipped the new search service in three months",
     " "}

CoreGateway ==
    [u \in Utterances |->
        {[kind |-> "raise"],
         [kind |-> "json",
          object |-> [action |-> "provide_feedback",
                      next_action |-> "continue_listening"]],
         [kind |-> "json",
          object |-> [action |-> "follow_up",
                      next_action |-> "continue_listening"]]}]

\* POST /interview/{id}/voice-response
VoiceResponse(s) == VoiceResponseOf(s, CoreUtterances, CoreGateway, BOOLEAN)

Next ==
    \E s \in SessionIds :
        \/ requests < MaxRequests /\ StartVoice(s)
        \/ requests < MaxRequests /\ VoiceResponse(s)
        \/ requests < MaxRequests /\ CompleteVoice(s)
        \/ requests < MaxRequests /\ StartInterview(s)
        \/ requests < MaxRequests /\ SubmitResponse(s)
        \/ requests < MaxRequests /\ CompleteInterviewRoute(s)

Spec == Init /\ [][Next]_vars

\* The requests of ControllerSpec: every utterance of the model; every
\* gateway outcome for one answer, and for the other utterances the gateway
\* failing, returning text, or returning one judgment.
SampledGateway ==
    [u \in Utterances |->
        IF u = "we shipped the billing service in May"
        THEN GatewayOutcomes
        ELSE {[kind |-> "raise"], [kind |-> "no_json"],
              [kind |-> "json",
               object |-> [action |-> "follow_up",
                           next_action |-> "continue_listening"]]}]

AnyVoiceResponse(s) ==
    VoiceResponseOf(s, Utterances, SampledGateway, BOOLEAN)

\* GET /interview/{id}/conversation.  read_error: the "Error getting
\* conversation from database" line was printed.
GetConversationRoute(s) ==
    \E find_ok \in BOOLEAN :
        /\ last' = Request("get_transcript", s, 200,
                           [conversation |->
                               GetConversation(active, db, s, find_ok)],
                           [read_error |->
                               s \notin DOMAIN active /\ ~find_ok])
        /\ requests' = requests + 1
        /\ UNCHANGED <<db, active, encouraged>>

\* The turn controller alone: start, submit_turn, get_transcript and
\* complete
ControllerNext ==
    \E s \in StoredIds :
        \/ requests < MaxControllerRequests /\ StartVoice(s)
        \/ requests < MaxControllerRequests /\ AnyVoiceResponse(s)
        \/ requests < MaxControllerRequests /\ GetConversationRoute(s)
        \/ requests < MaxControllerRequests /\ CompleteVoice(s)

ControllerSpec == Init /\ [][ControllerNext]_vars

\* The voice routes alone, on every session id: start, submit_turn and
\* complete
VoiceNext ==
    \E s \in SessionIds :
        \/ requests < MaxRequests /\ StartVoice(s)
        \/ requests < MaxRequests /\ VoiceResponse(s)
        \/ requests < MaxRequests /\ CompleteVoice(s)

VoiceSpec == Init /\ [][VoiceNext]_vars

\* A session generated with no question (no question type asked for, or
\* num_questions = 0), next to a session of one question and an unknown id
EmptyIds == {"s3"}

GeneratedIds == {"s2"} \cup EmptyIds

GeneratedInit ==
    /\ db = [s \in GeneratedIds |-> NewDocument(s)]
    /\ active = <<>>
    /\ last = Request("none", "none", 0, <<>>, <<>>)
    /\ requests = 0
    /\ encouraged = [s \in SessionIds \cup EmptyIds |-> 0]

\* The voice routes on the generated sessions and the unknown id
GeneratedNext ==
    \E s \in GeneratedIds \cup {"s0"} :
        \/ requests < MaxRequests /\ StartVoice(s)
        \/ requests < MaxRequests /\ VoiceResponse(s)
        \/ requests < MaxRequests /\ CompleteVoice(s)

GeneratedSpec == GeneratedInit /\ [][GeneratedNext]_vars

\* The handlers are coroutines of one event loop.  A handler gives the loop
\* to another request only where it awaits something that suspends, and
\* process_voice_response has no such place: every await in it is on a
\* coroutine of this repository, and those call the gateway with the
\* blocking self.model.generate_content(prompt) and the store with the
\* blocking pymongo calls.  So a turn that has called the gateway holds the
\* loop until the call returns.  It is in last with status 0, no reply sent.
GatewayPending(s) ==
    last.op = "submit_turn" /\ last.id = s /\ last.status = 0

\* The loop is running a handler that has not returned
Busy == last.op = "submit_turn" /\ last.status = 0

\* The utterances of Spec for which process_user_input calls the gateway,
\* and those for which it does not
SlowUtterances == {u \in CoreUtterances : ~IsBlank(u) /\ CallsGateway(u)}

QuickUtterances == CoreUtterances \ SlowUtterances

\* process_voice_response up to the gateway call inside process_user_input:
\* the session is found, the current question read and the user_response
\* event appended
CallGateway(s) ==
    /\ s \in DOMAIN active
    /\ active[s].current_question_index < Len(active[s].questions)
    /\ \E u \in SlowUtterances, response_time \in ResponseTimes :
          /\ active' = Put(active, s,
                 HeardWithoutReply(active[s],
                     active[s].questions[active[s].current_question_index + 1],
                     u, <<>>))
          /\ last' = Request("submit_turn", s, 0, <<>>,
                             [response |-> u, response_time |-> response_time,
                              gateway_called |-> TRUE])
    /\ UNCHANGED <<db, requests, encouraged>>

\* The table with the user_response event of the turn in flight taken off
\* the transcript of s again
Unheard(tbl, s) ==
    Put(tbl, s, [tbl[s] EXCEPT !.conversation = SubSeq(@, 1, Len(@) - 1)])

\* The gateway call of the turn in flight returns or raises, and the handler
\* runs on to its end
GatewayReturns(s) ==
    /\ GatewayPending(s)
    /\ \E g \in CoreGateway[last.turn.response], save_ok, complete_ok \in BOOLEAN :
          VoiceResponseStep(s, last.turn.response, last.turn.response_time,
              ProcessVoiceResponse(Unheard(active, s), db, s,
                                   last.turn.response, last.turn.response_time,
                                   g, save_ok, complete_ok))

\* A turn whose handler never calls the gateway
QuickTurn(s) == VoiceResponseOf(s, QuickUtterances, CoreGateway, BOOLEAN)

\* The loop takes up a submit_turn request for s
TurnStarts(s) ==
    /\ ~Busy
    /\ requests < MaxRequests
    /\ CallGateway(s) \/ QuickTurn(s)

\* The voice routes as the event loop runs them
LoopNext ==
    \E s \in StoredIds :
        \/ ~Busy /\ requests < MaxRequests /\ StartVoice(s)
        \/ TurnStarts(s)
        \/ GatewayReturns(s)
        \/ ~Busy /\ requests < MaxRequests /\ CompleteVoice(s)

LoopSpec == Init /\ [][LoopNext]_vars

\* The resolver alone: process_user_input applied to an utterance, the
\* gateway doing g if it is called.  The call is in last: the utterance and
\* g in last.turn, the judgment in last.result once it has returned.
ResolverInit ==
    /\ db = [s \in StoredIds |-> NewDocument(s)]
    /\ active = <<>>
    /\ requests = 0
    /\ encouraged = [s \in SessionIds |-> 0]
    /\ \E u \in AllUtterances, g \in GatewayOutcomes :
          last = Request("process_user_input", "none", 0, <<>>,
                         [response |-> u, gateway |-> g,
                          gateway_called |-> FALSE])

\* conversation_manager.process_user_input(user_response, ...)
Resolve ==
    /\ last.op = "process_user_input"
    /\ DOMAIN last.result = {}
    /\ last' = [last EXCEPT
                   !.result = ProcessUserInput(last.turn.response,
                                               last.turn.gateway),
                   !.turn.gateway_called = CallsGateway(last.turn.response)]
    /\ UNCHANGED <<db, active, requests, encouraged>>

ResolverNext == Resolve

ResolverSpec == ResolverInit /\ [][ResolverNext]_vars

-----------------------------------------------------------------------------
(* Properties of the turn controller *)

\* The position of the last ai_question event of a transcript, 0 if none
LastAsked(conversation) ==
    IF \E i \in 1..Len(conversation) : conversation[i].type = "ai_question"
    THEN CHOOSE i \in 1..Len(conversation) :
            /\ conversation[i].type = "ai_question"
            /\ \A j \in (i + 1)..Len(conversation) :
                   conversation[j].type # "ai_question"
    ELSE 0

\* The turns heard since the last question was asked
TurnsOnQuestion(conversation) ==
    Cardinality({i \in (LastAsked(conversation) + 1)..Len(conversation) :
                    conversation[i].type = "user_response"})

\* The session is on a question: it is active and a question is left
OnQuestion(s) ==
    /\ s \in DOMAIN active
    /\ active[s].current_question_index < Len(active[s].questions)

\* C1, as stated: the turns spent on one question without the index
\* advancing are bounded by the follow-up cap -- a session that is still on
\* a question has heard at most FollowUpCap turns since it asked it.
C1_TurnsPerQuestionBounded ==
    \A s \in SessionIds :
        OnQuestion(s) => TurnsOnQuestion(active[s].conversation) <= FollowUpCap

\* C2, as stated: the persisted responses of a session never hold two
\* records with the same question id.
C2_NoDuplicateRecords ==
    \A s \in DOMAIN db :
        \A i, j \in 1..Len(db[s].responses) :
            db[s].responses[i].question_id = db[s].responses[j].question_id
                => i = j

\* C3: in every reachable state every active entry has
\* current_question_index <= len(questions).
C3_IndexWithinQuestions ==
    \A s \in DOMAIN active :
        active[s].current_question_index <= Len(active[s].questions)

\* C3's case: an entry whose index has reached the end of a non-empty
\* question list (the turn advanced past the last question and the entry
\* stayed, its completion having failed)
C3_IndexAtEnd ==
    \E s \in DOMAIN active :
        /\ Len(active[s].questions) > 0
        /\ active[s].current_question_index = Len(active[s].questions)
        /\ last.op = "submit_turn" /\ last.id = s /\ last.status = 200

\* The step serves a request
Served == requests' = requests + 1

\* The step serves a turn that the controller processed
ServedTurn == Served /\ last'.op = "submit_turn" /\ last'.status = 200

\* The step makes the stored status of s completed
BecomesCompleted(s) ==
    /\ db[s].status # "completed"
    /\ db'[s].status = "completed"

\* C4, as stated: the advance-question procedure is the only path to
\* completed -- the stored status of a session becomes completed only in a
\* turn of that session whose index reaches len(questions).
C4_CompletedOnlyAtLastQuestion ==
    [][\A s \in DOMAIN db :
          BecomesCompleted(s) =>
              /\ last'.op = "submit_turn" /\ last'.id = s
              /\ last'.turn.data.current_question_index
                     = Len(last'.turn.data.questions)]_vars

\* C4, amended: a turn completes a session only when its index reaches
\* len(questions), and an entry is marked completed only at that index; the
\* stored status also becomes completed, at any index, by the complete
\* operation of the controller and by the /complete route.
C4_CompletedByTurnOnlyAtLastQuestion ==
    /\ [](\A s \in DOMAIN active :
            active[s].status = "completed" =>
                active[s].current_question_index = Len(active[s].questions))
    /\ [][\A s \in DOMAIN db :
            BecomesCompleted(s) =>
                /\ last'.id = s
                /\ \/ last'.op \in {"complete", "route_complete"}
                   \/ /\ last'.op = "submit_turn"
                      /\ "interview_completed" \in DOMAIN last'.result
                      /\ last'.turn.data.current_question_index
                             = Len(last'.turn.data.questions)]_vars

\* C4's case: the last turn answered the last question and the session is
\* stored as completed and torn down
C4_CompletedByLastTurn ==
    /\ last.op = "submit_turn" /\ last.status = 200
    /\ "interview_completed" \in DOMAIN last.result
    /\ last.id \notin DOMAIN active
    /\ db[last.id].status = "completed"

\* C5: the follow-up counter of an entry is 0 or 1 between turns and counts
\* the encourage-class keep-listening turns spent on the question; the
\* first such turn on a question stays on it with the counter at 1, the
\* second advances the index by one and leaves the counter at 0, whatever
\* other turns came between.
C5_SecondEncourageAdvances ==
    /\ [](\A s \in DOMAIN active :
            /\ active[s].follow_up_count \in {0, 1}
            /\ active[s].follow_up_count = encouraged[s])
    /\ [][(ServedTurn /\ last'.turn.branch = "encourage") =>
            IF encouraged[last'.id] = 1
            THEN /\ last'.turn.data.current_question_index
                       = last'.turn.index_before + 1
                 /\ last'.turn.data.follow_up_count = 0
            ELSE /\ last'.turn.data.current_question_index
                       = last'.turn.index_before
                 /\ last'.turn.data.follow_up_count = 1]_vars

\* C5's case: the second encourage-class turn on a question, a repeat
\* request having come between the two, advanced the index
C5_SecondEncourageAfterRepeat ==
    /\ last.op = "submit_turn" /\ last.status = 200
    /\ last.turn.branch = "encourage"
    /\ last.turn.follow_up_before = 1
    /\ last.turn.data.current_question_index = last.turn.index_before + 1
    /\ last.turn.data.follow_up_count = 0
    /\ \E i \in 1..Len(last.turn.data.conversation) :
           /\ last.turn.data.conversation[i].type = "ai_repeat"
           /\ \E j \in 1..(i - 1) :
                  last.turn.data.conversation[j].type = "ai_response"

\* C6: a turn whose resolved action is skip_question leaves the index at
\* exactly the index before it plus one and the follow-up counter at 0,
\* whatever the counter was; the table holds that entry unless the turn
\* completed the session.
C6_SkipAdvancesByOne ==
    (last.op = "submit_turn" /\ last.status = 200
        /\ last.turn.action = "skip_question") =>
        /\ last.turn.index_before < Len(last.turn.data.questions)
        /\ last.turn.data.current_question_index = last.turn.index_before + 1
        /\ last.turn.data.follow_up_count = 0
        /\ last.id \in DOMAIN active => active[last.id] = last.turn.data

\* C6's case: a skip turn on a question that had a follow-up counted
C6_SkipAfterFollowUp ==
    /\ last.op = "submit_turn" /\ last.status = 200
    /\ last.turn.action = "skip_question"
    /\ last.turn.follow_up_before = 1
    /\ last.turn.data.current_question_index = last.turn.index_before + 1
    /\ last.turn.data.follow_up_count = 0

\* C7: a turn whose action is repeat_question, clarify_question,
\* provide_example or adjust_pace leaves the index, the follow-up counter
\* and the status of the entry and the stored documents (status, responses)
\* unchanged, and reports continue_same_question and has_follow_up as true;
\* the utterance "can you repeat that?" always resolves to repeat_question.
C7_MetaTurnStaysOnQuestion ==
    [][/\ (ServedTurn /\ last'.turn.action \in MetaActions) =>
            /\ last'.id \in DOMAIN active'
            /\ active'[last'.id].current_question_index
                   = active[last'.id].current_question_index
            /\ active'[last'.id].follow_up_count
                   = active[last'.id].follow_up_count
            /\ active'[last'.id].status = active[last'.id].status
            /\ db' = db
            /\ last'.result.continue_same_question
            /\ last'.result.has_follow_up
            /\ last'.result.follow_up_question = last'.result.ai_response
       /\ (ServedTurn /\ last'.turn.response = "can you repeat that?") =>
            last'.turn.action = "repeat_question"]_vars

\* C7's case: a meta request on a question that had a follow-up counted
C7_MetaTurnAfterFollowUp ==
    /\ last.op = "submit_turn" /\ last.status = 200
    /\ last.turn.action \in MetaActions
    /\ last.turn.follow_up_before = 1
    /\ last.id \in DOMAIN active
    /\ active[last.id].follow_up_count = 1

\* The step appends to the responses of s one record, of the question at
\* the index before the turn, with the utterance and response time of the
\* turn
AppendsRecordOfTurn(s) ==
    /\ Len(db'[s].responses) = Len(db[s].responses) + 1
    /\ SubSeq(db'[s].responses, 1, Len(db[s].responses)) = db[s].responses
    /\ db'[s].responses[Len(db'[s].responses)].question_id
           = active[s].questions[active[s].current_question_index + 1]
    /\ db'[s].responses[Len(db'[s].responses)].user_response
           = last'.turn.response
    /\ db'[s].responses[Len(db'[s].responses)].response_time
           = last'.turn.response_time

\* C8, as stated: a turn that takes the branch of continue / move_next /
\* not keep listening appends one record of the turn and advances the index
\* by exactly 1.
C8_FinishAppendsRecord ==
    [][(ServedTurn /\ last'.turn.branch = "finish") =>
          /\ AppendsRecordOfTurn(last'.id)
          /\ last'.turn.data.current_question_index
                 = last'.turn.index_before + 1]_vars

\* C8, amended: such a turn advances the index by exactly 1, and appends
\* one record of the turn unless the store update of the save fails: then
\* the error is printed, no record is appended and the turn advances all
\* the same.
C8_FinishAppendsRecordUnlessSaveFails ==
    [][(ServedTurn /\ last'.turn.branch = "finish") =>
          /\ IF last'.turn.save_error
             THEN db'[last'.id].responses = db[last'.id].responses
             ELSE AppendsRecordOfTurn(last'.id)
          /\ last'.turn.data.current_question_index
                 = last'.turn.index_before + 1
          /\ last'.turn.data.follow_up_count = 0]_vars

\* C8's case: a judgment that is neither continue nor move_next but does
\* not keep listening; the record of the turn is stored
C8_FinishOnNotListening ==
    /\ last.op = "submit_turn" /\ last.status = 200
    /\ last.turn.branch = "finish"
    /\ last.turn.action \notin AdvanceActions
    /\ ~last.turn.continue_listening
    /\ ~last.turn.save_error
    /\ Len(db[last.id].responses) > 0
    /\ db[last.id].responses[Len(db[last.id].responses)].user_response
           = last.turn.response

\* p is a prefix of q
IsPrefix(p, q) == Len(p) <= Len(q) /\ SubSeq(q, 1, Len(p)) = p

\* C9, as stated: the transcript of a session is append-only -- across
\* every step, the transcript an active session had is a prefix of the one
\* it has.
C9_TranscriptAppendOnly ==
    [][\A s \in DOMAIN active \cap DOMAIN active' :
          IsPrefix(active[s].conversation, active'[s].conversation)]_vars

\* C10, as stated: while a session has an active entry its current
\* question index never decreases.
C10_IndexNeverDecreases ==
    [][\A s \in DOMAIN active \cap DOMAIN active' :
          active'[s].current_question_index
              >= active[s].current_question_index]_vars

\* The place of a status in pending -> ready -> in_progress -> completed
StatusRank(status) ==
    CASE status = "pending"     -> 0
      [] status = "ready"       -> 1
      [] status = "in_progress" -> 2
      [] status = "completed"   -> 3

\* C11, as stated: the stored status of a session only moves forward along
\* pending -> ready -> in_progress -> completed.
C11_StatusMovesForward ==
    [][\A s \in DOMAIN db :
          StatusRank(db'[s].status) >= StatusRank(db[s].status)]_vars

\* The step writes completed_at of s: the /complete route or the
\* controller's complete_interview (called by the complete-voice route or
\* by the turn that answered the last question) updated the document
WritesCompletedAt(s) ==
    /\ Served /\ last'.id = s /\ s \in DOMAIN db
    /\ \/ last'.op = "route_complete" /\ last'.status = 200
       \/ last'.op = "complete" /\ last'.result.success
       \/ /\ last'.op = "submit_turn" /\ last'.status = 200
          /\ "interview_completed" \in DOMAIN last'.result
          /\ s \notin DOMAIN active'

\* C12, as stated: after every step, completed_at of a session is set if
\* and only if its stored status is completed, and no step writes
\* completed_at of a session that has it set.
C12_CompletedAtIffCompleted ==
    [][\A s \in DOMAIN db :
          /\ db'[s].completed_at # "None" <=> db'[s].status = "completed"
          /\ WritesCompletedAt(s) => db[s].completed_at = "None"]_vars

\* The last request was a turn that advanced past the last question
AnsweredLastQuestion ==
    /\ last.op = "submit_turn" /\ last.status = 200
    /\ last.turn.index_before + 1 = Len(last.turn.data.questions)
    /\ last.turn.data.current_question_index = Len(last.turn.data.questions)

\* C13, as stated: when a turn advances past the last question the result
\* has interview_completed = true, the entry of the session is removed, and
\* get_transcript then returns, from the stored document, the events the
\* entry held at teardown.
C13_LastTurnTearsDown ==
    AnsweredLastQuestion =>
        /\ "interview_completed" \in DOMAIN last.result
        /\ last.result.interview_completed
        /\ last.id \notin DOMAIN active
        /\ GetConversation(active, db, last.id, TRUE)
               = last.turn.data.conversation

\* C14: complete returns true only for a session with an active entry, and
\* then the entry is removed and the document holds the transcript of the
\* entry with status completed; for a session with no entry (one already
\* torn down included) it returns false and changes neither the table nor
\* the documents; whatever it returns, the other entries are untouched.
C14_CompleteOnlyOnce ==
    [][(Served /\ last'.op = "complete") =>
          /\ IF last'.result.success
             THEN /\ last'.id \in DOMAIN active
                  /\ active' = Del(active, last'.id)
                  /\ db'[last'.id].conversation
                         = active[last'.id].conversation
                  /\ db'[last'.id].status = "completed"
             ELSE active' = active /\ db' = db
          /\ last'.id \notin DOMAIN active => ~last'.result.success]_vars

\* C14's case: a second complete on a session the first one tore down
C14_CompleteAgain ==
    /\ last.op = "complete" /\ last.id \in DOMAIN db
    /\ ~last.result.success
    /\ last.id \notin DOMAIN active
    /\ db[last.id].status = "completed"
    /\ "conversation" \in DOMAIN db[last.id]
    /\ Len(db[last.id].conversation) = 1

\* C15: a turn submitted for a session with no active entry (an id of no
\* document, a session never started, a session already completed) is
\* answered with the error "Interview not found or not active", which no
\* other refusal uses, and changes neither the table nor the documents.
C15_NotActiveChangesNothing ==
    [][(Served /\ last'.op = "submit_turn"
           /\ last'.id \notin DOMAIN active
           /\ ~IsBlank(last'.turn.response)) =>
          /\ last'.status = 400
          /\ last'.result = [error |-> "Interview not found or not active"]
          /\ active' = active
          /\ db' = db]_vars

\* C15's case: a turn submitted for a session already completed and torn down
C15_TurnAfterCompletion ==
    /\ last.op = "submit_turn" /\ last.status = 400
    /\ last.result = [error |-> "Interview not found or not active"]
    /\ last.id \in DOMAIN db
    /\ db[last.id].status = "completed"
    /\ "conversation" \in DOMAIN db[last.id]

\* C16: a turn whose utterance is empty or only whitespace is refused with
\* the validation error "Empty response" before the controller is called:
\* the table (transcripts, indexes, follow-up counters) and the documents
\* (responses) are unchanged and the gateway is not called.
C16_BlankUtteranceRefused ==
    [][(Served /\ last'.op = "submit_turn"
           /\ last'.turn.response \in {"", " "}) =>
          /\ last'.status = 400
          /\ last'.result = [detail |-> "Empty response"]
          /\ ~last'.turn.gateway_called
          /\ active' = active
          /\ db' = db]_vars

\* C16's case: an empty utterance refused for a session that is on a
\* question, a turn having been heard on it
C16_EmptyUtteranceOnQuestion ==
    /\ last.op = "submit_turn" /\ last.status = 400
    /\ last.turn.response = ""
    /\ OnQuestion(last.id)
    /\ TurnsOnQuestion(active[last.id].conversation) = 1

\* The types of the event in which the AI replies to an utterance
ReplyTypes == {"ai_response", "ai_repeat", "ai_clarification"}

\* The transcript after extends the transcript before by the user_response
\* event of utterance u on question qid, then an AI reply event on qid,
\* then nothing but the events of moving on
ExtendsByWholeTurn(before, after, u, qid) ==
    /\ Len(after) >= Len(before) + 2
    /\ SubSeq(after, 1, Len(before)) = before
    /\ after[Len(before) + 1] = QEvent("user_response", u, qid)
    /\ after[Len(before) + 2].type \in ReplyTypes
    /\ after[Len(before) + 2].question_id = qid
    /\ \A i \in (Len(before) + 3)..Len(after) :
           after[i].type \in {"ai_transition", "ai_question", "ai_completion"}

\* C17: a turn that returns an error leaves the table (transcript, index,
\* follow-up counter of every session) and the documents as they were; a
\* turn that returns a result leaves a transcript extended by its
\* user_response event followed by an AI reply event.
C17_TurnIsAllOrNothing ==
    [][(Served /\ last'.op = "submit_turn") =>
          IF last'.status = 200
          THEN ExtendsByWholeTurn(
                   active[last'.id].conversation,
                   last'.turn.data.conversation,
                   last'.turn.response,
                   active[last'.id].questions[last'.turn.index_before + 1])
          ELSE active' = active /\ db' = db]_vars

\* C17's case: a turn refused on an active session that has no question
\* left, its transcript holding the turns heard before
C17_RefusedWithNoQuestionLeft ==
    /\ last.op = "submit_turn" /\ last.status = 400
    /\ last.result = [error |-> "No more questions available"]
    /\ last.id \in DOMAIN active
    /\ Len(active[last.id].conversation) >= 3

\* The outcomes a result reports: a pending follow-up, a next question, the
\* interview completed
OutcomesOf(result) ==
    {o \in {"pending_follow_up", "next_question", "interview_completed"} :
        \/ o = "pending_follow_up" /\ Get(result, "has_follow_up", FALSE)
        \/ o = "next_question" /\ "next_question" \in DOMAIN result
        \/ o = "interview_completed"
              /\ Get(result, "interview_completed", FALSE)}

\* C18, as stated: a turn with a non-blank utterance on a session that is
\* on a question, whatever the gateway does, returns a result that is no
\* error, carries an AI reply and reports exactly one outcome among pending
\* follow-up, next question and interview completed.
C18_TurnReportsOneOutcome ==
    [][(Served /\ last'.op = "submit_turn" /\ OnQuestion(last'.id)
           /\ ~IsBlank(last'.turn.response)) =>
          /\ last'.status = 200
          /\ "error" \notin DOMAIN last'.result
          /\ "ai_response" \in DOMAIN last'.result
          /\ Cardinality(OutcomesOf(last'.result)) = 1]_vars

\* C19: a start that succeeds leaves for the session an active entry with
\* index 0, follow-up counter 0 and a transcript of exactly the ai_question
\* event of questions[0], and returns questions[0] as the current question,
\* question_index 0 and total_questions = len(questions); a start for an
\* id of no document returns None and stores no entry.
C19_StartAllocatesFreshTurnState ==
    [][(Served /\ last'.op = "start") =>
          /\ DOMAIN last'.result # {} =>
                /\ last'.id \in DOMAIN db
                /\ last'.id \in DOMAIN active'
                /\ active'[last'.id].current_question_index = 0
                /\ active'[last'.id].follow_up_count = 0
                /\ active'[last'.id].status = "active"
                /\ active'[last'.id].questions = db[last'.id].questions
                /\ active'[last'.id].conversation
                       = <<QEvent("ai_question", db[last'.id].questions[1],
                                  db[last'.id].questions[1])>>
                /\ last'.result.current_question = db[last'.id].questions[1]
                /\ last'.result.question_index = 0
                /\ last'.result.total_questions = Len(db[last'.id].questions)
          /\ last'.id \notin DOMAIN db =>
                /\ DOMAIN last'.result = {}
                /\ active' = active
                /\ db' = db]_vars

\* C19's case: a successful start of a session that had been started and
\* had a question answered and recorded
C19_StartAfterAnswer ==
    /\ last.op = "start" /\ DOMAIN last.result # {}
    /\ last.id \in DOMAIN active
    /\ Len(active[last.id].conversation) = 1
    /\ Len(db[last.id].responses) > 0
    /\ db[last.id].responses[1].user_response # "it went well overall"

\* C20, as stated: a turn with the utterance "I don't know, maybe not
\* sure" resolves to provide_feedback with quality poor and keeps
\* listening, reports a pending follow-up and does not advance the index.
C20_NotKnowingGetsFeedback ==
    [][(ServedTurn /\ last'.turn.response = "I don't know, maybe not sure") =>
          /\ last'.turn.action = "provide_feedback"
          /\ last'.turn.continue_listening
          /\ "pending_follow_up" \in OutcomesOf(last'.result)
          /\ last'.turn.data.current_question_index
                 = last'.turn.index_before]_vars

\* C20, amended: the fallback heuristic gives this utterance (6 words, with
\* uncertainty markers) provide_feedback, quality poor and keep listening;
\* a turn never reaches the heuristic with it, because it holds the skip
\* phrases "i don't know" and "not sure": the turn resolves to
\* skip_question without a gateway call, advances the index by one and
\* reports no pending follow-up.
C20_NotKnowingSkips ==
    [][(ServedTurn /\ last'.turn.response = "I don't know, maybe not sure") =>
          /\ FallbackOf["I don't know, maybe not sure"].action
                 = "provide_feedback"
          /\ FallbackOf["I don't know, maybe not sure"].response_quality
                 = "poor"
          /\ FallbackOf["I don't know, maybe not sure"].continue_listening
          /\ WordCount("I don't know, maybe not sure") = 6
          /\ last'.turn.action = "skip_question"
          /\ ~last'.turn.gateway_called
          /\ "pending_follow_up" \notin OutcomesOf(last'.result)
          /\ last'.turn.data.current_question_index
                 = last'.turn.index_before + 1]_vars

\* C20's case: a turn with that utterance on the first of two questions
C20_NotKnowingOnFirstQuestion ==
    /\ last.op = "submit_turn" /\ last.status = 200
    /\ last.turn.response = "I don't know, maybe not sure"
    /\ last.turn.index_before = 0
    /\ "next_question" \in DOMAIN last.result
    /\ last.result.next_question = "behavioral_0"

-----------------------------------------------------------------------------
(* Properties of the resolver *)

\* process_user_input has returned
Resolved == last.op = "process_user_input" /\ DOMAIN last.result # {}

\* The gateway raised, or returned no JSON object, or one that does not
\* parse, or the empty one
GatewayGaveNothing(g) ==
    \/ g.kind \in {"raise", "no_json", "bad_json"}
    \/ g.kind = "json" /\ DOMAIN g.object = {}

\* The answers of the model that match no phrase set and have at least 3
\* words, with their number of words and whether they hold an uncertainty
\* marker, both counted by hand
Answers ==
    {[text |-> "it went well", words |-> 3, marker |-> FALSE],
     [text |-> "it went well overall", words |-> 4, marker |-> FALSE],
     [text |-> "I dont know", words |-> 3, marker |-> TRUE],
     [text |-> "I think it was fine", words |-> 5, marker |-> TRUE],
     [text |-> "Maybe it was around two thousand", words |-> 6,
      marker |-> TRUE],
     [text |-> "we shipped the billing service", words |-> 5,
      marker |-> FALSE],
     [text |-> "we shipped the billing service in May", words |-> 7,
      marker |-> FALSE],
     [text |-> "we built the new search service and shipped it to all users in May",
      words |-> 14, marker |-> FALSE],
     [text |-> "we built the new search service and shipped it to all users in May too",
      words |-> 15, marker |-> FALSE],
     [text |-> "I led the team and we built and shipped the new search service in three months",
      words |-> 16, marker |-> FALSE],
     [text |-> "I led the team and we probably built and shipped the new search service in three months",
      words |-> 17, marker |-> TRUE]}

\* The judgment the heuristic is said to give an answer of so many words,
\* with or without a marker: action, quality, keep listening
HeuristicSays(words, marker) ==
    IF words < 5 \/ marker THEN <<"provide_feedback", "poor", TRUE>>
    ELSE IF words < 15 THEN <<"encourage_more", "fair", TRUE>>
    ELSE <<"continue", "good", FALSE>>

\* C21: for every answer that reaches the semantic analysis, when the
\* gateway raises or returns no JSON object, an unparseable one or the
\* empty one, the judgment is the one the heuristic gives its word count
\* and marker: provide_feedback / poor / keep listening under 5 words or
\* with a marker, else encourage_more / fair / keep listening under 15
\* words, else continue / good / do not keep listening.
C21_FallbackByWordsAndMarker ==
    \A a \in Answers :
        (Resolved /\ last.turn.response = a.text
            /\ GatewayGaveNothing(last.turn.gateway)) =>
            /\ last.turn.gateway_called
            /\ <<last.result.action, last.result.response_quality,
                 last.result.continue_listening>>
                   = HeuristicSays(a.words, a.marker)

\* C21's case: an answer of exactly 15 words, the gateway returning a JSON
\* object that does not parse
C21_FifteenWordsUnparsed ==
    /\ Resolved
    /\ last.turn.response
           = "we built the new search service and shipped it to all users in May too"
    /\ last.turn.gateway.kind = "bad_json"
    /\ last.result.action = "continue"

\* The tests of process_user_input in their order: 1 repeat, 2 clarify,
\* 3 skip, 4 adjust pace, 5 example
IntentOrder ==
    <<"repeat_question", "clarify_question", "skip_question", "adjust_pace",
      "provide_example">>

\* The reply of each intent that is answered without semantic analysis
IntentReplies ==
    [repeat_question       |-> {"repeat_template"},
     clarify_question      |-> {"clarify_template", "gateway_clarification"},
     skip_question         |-> {"skip_template"},
     adjust_pace           |-> {"pace_template"},
     provide_example       |-> {"example_template", "gateway_example"},
     encourage_elaboration |-> {"elaborate_template"}]

\* The replies of the semantic analysis
SemanticReplies ==
    {"fallback_uncertain", "fallback_good_start", "fallback_comprehensive",
     "default_thank_you", "gateway_reply"}

\* Every utterance of the model with the phrase sets it matches and its
\* number of words, both found by hand
Classified ==
    {[text |-> "can you repeat that?", matches |-> {1}, words |-> 4],
     [text |-> "I am confused", matches |-> {2}, words |-> 3],
     [text |-> "I don't know, maybe not sure", matches |-> {3}, words |-> 6],
     [text |-> "slow down", matches |-> {4}, words |-> 2],
     [text |-> "for instance", matches |-> {5}, words |-> 2],
     [text |-> "Yes sure", matches |-> {}, words |-> 2],
     [text |-> "it went well overall", matches |-> {}, words |-> 4],
     [text |-> "we shipped the billing service in May", matches |-> {},
      words |-> 7],
     [text |-> "I led the team and we built and shipped the new search service in three months",
      matches |-> {}, words |-> 16],
     [text |-> " ", matches |-> {}, words |-> 0],
     [text |-> "", matches |-> {}, words |-> 0],
     [text |-> "can you repeat and explain that", matches |-> {1, 2},
      words |-> 6],
     [text |-> "please explain or skip it", matches |-> {2, 3}, words |-> 5],
     [text |-> "skip this and slow down", matches |-> {3, 4}, words |-> 5],
     [text |-> "slow down, for instance now", matches |-> {4, 5},
      words |-> 5],
     [text |-> "example", matches |-> {5}, words |-> 1],
     [text |-> "REPEAT", matches |-> {1}, words |-> 1],
     [text |-> "I passed the exam last year", matches |-> {3}, words |-> 6],
     [text |-> "Fine", matches |-> {}, words |-> 1],
     [text |-> "it went well", matches |-> {}, words |-> 3],
     [text |-> "I dont know", matches |-> {}, words |-> 3],
     [text |-> "I think it was fine", matches |-> {}, words |-> 5],
     [text |-> "Maybe it was around two thousand", matches |-> {},
      words |-> 6],
     [text |-> "we shipped the billing service", matches |-> {}, words |-> 5],
     [text |-> "we built the new search service and shipped it to all users in May",
      matches |-> {}, words |-> 14],
     [text |-> "we built the new search service and shipped it to all users in May too",
      matches |-> {}, words |-> 15],
     [text |-> "I led the team and we probably built and shipped the new search service in three months",
      matches |-> {}, words |-> 17]}

\* The intent of first match: the earliest phrase set matched, else too
\* short under 3 words, else semantic analysis
FirstMatch(matches, words) ==
    IF matches # {}
    THEN IntentOrder[CHOOSE i \in matches : \A j \in matches : i <= j]
    ELSE IF words < 3 THEN "encourage_elaboration"
    ELSE "semantic"

\* C22: every utterance gets the intent of first match in the order
\* repeat, clarify, skip, adjust pace, example, too short, semantic
\* analysis: it is answered with the action and a reply of that intent,
\* and the judgment is one of the semantic analysis exactly when no phrase
\* set matches and the utterance has at least 3 words.
C22_FirstMatchWins ==
    /\ {c.text : c \in Classified} = AllUtterances
    /\ \A c \in Classified :
          (Resolved /\ last.turn.response = c.text) =>
              IF FirstMatch(c.matches, c.words) = "semantic"
              THEN /\ last.turn.gateway_called
                   /\ last.result.response \in SemanticReplies
              ELSE /\ last.result.action = FirstMatch(c.matches, c.words)
                   /\ last.result.response
                          \in IntentReplies[FirstMatch(c.matches, c.words)]

\* C22's case: an utterance that matches the clarify and the skip phrases
C22_ClarifyBeforeSkip ==
    /\ Resolved
    /\ last.turn.response = "please explain or skip it"
    /\ last.result.action = "clarify_question"

\* What the program holds of session s: its entry in the active table, if
\* any, and its document, if any
SessionState(tbl, store, s) ==
    [entry |-> IF s \in DOMAIN tbl THEN <<tbl[s]>> ELSE <<>>,
     document |-> IF s \in DOMAIN store THEN <<store[s]>> ELSE <<>>]

\* The table d with the entries of every session but s taken out
Only(d, s) == [k \in DOMAIN d \cap {s} |-> d[k]]

\* The request last' is served from the state of its own session alone:
\* run on the tables holding only that session, the operation gives the same
\* body and leaves that session in the same state.
ServedAlone(s) ==
    CASE last'.op = "start" ->
           \E find_ok, update_ok \in BOOLEAN :
               LET r == StartVoiceInterview(Only(active, s), Only(db, s), s,
                                            find_ok)
               IN  /\ r.result = last'.result
                   /\ SessionState(r.active,
                                   IF DOMAIN r.result # {} /\ update_ok
                                   THEN UpdateSet(Only(db, s), s,
                                                  [status |-> "in_progress"])
                                   ELSE Only(db, s), s)
                        = SessionState(active', db', s)
      [] last'.op = "submit_turn" /\ "detail" \notin DOMAIN last'.result ->
           \E g \in GatewayCalls(last'.turn.response, CoreGateway),
              complete_ok \in BOOLEAN :
               LET r == ProcessVoiceResponse(Only(active, s), Only(db, s), s,
                                             last'.turn.response,
                                             last'.turn.response_time, g,
                                             ~Get(last'.turn, "save_error", FALSE),
                                             complete_ok)
               IN  /\ r.result = last'.result
                   /\ SessionState(r.active, r.db, s)
                        = SessionState(active', db', s)
      [] last'.op = "complete" ->
           \E update_ok \in BOOLEAN :
               LET r == CompleteInterview(Only(active, s), Only(db, s), s,
                                          update_ok)
               IN  /\ r.result = last'.result.success
                   /\ SessionState(r.active, r.db, s)
                        = SessionState(active', db', s)
      [] OTHER -> TRUE

\* C23: sessions are independent.  A request on one session leaves the
\* entry (index, follow-up counter, transcript) and the document (status,
\* response records) of every other session as they were, and it is served
\* from the state of its own session alone, so that in any interleaving each
\* session ends as it does when its requests run alone.
C23_SessionsIndependent ==
    [][Served =>
          /\ \A b \in SessionIds \ {last'.id} :
                SessionState(active', db', b) = SessionState(active, db, b)
          /\ ServedAlone(last'.id)]_vars

\* C23's case: a turn of s1 is heard while s2 is in its own interview with a
\* turn heard
C23_TurnBesideOtherSession ==
    /\ last.op = "submit_turn" /\ last.id = "s1" /\ last.status = 200
    /\ "s2" \in DOMAIN active
    /\ Len(active["s2"].conversation) > 1


\* C24: a turn whose save of the response record fails is not blocked by
\* it: it returns a result that is no error and carries the AI reply, it
\* advances the question index by exactly 1, and its transcript events are
\* appended: the user_response, the AI reply, and the events of moving on,
\* which the result reports as a next question or as the completion.
C24_SaveFailureDoesNotBlock ==
    [][(Served /\ last'.op = "submit_turn"
           /\ Get(last'.turn, "save_error", FALSE)) =>
          /\ last'.status = 200
          /\ "error" \notin DOMAIN last'.result
          /\ "ai_response" \in DOMAIN last'.result
          /\ last'.turn.data.current_question_index
                 = active[last'.id].current_question_index + 1
          /\ ExtendsByWholeTurn(
                 active[last'.id].conversation,
                 last'.turn.data.conversation,
                 last'.turn.response,
                 active[last'.id].questions[
                     active[last'.id].current_question_index + 1])
          /\ Len(last'.turn.data.conversation)
                 > Len(active[last'.id].conversation) + 2
          /\ \/ "next_question" \in DOMAIN last'.result
             \/ Get(last'.result, "interview_completed", FALSE)]_vars

\* C24's case: the save failed on the first question of s1 and the turn
\* moved the session to its second question, no record stored
C24_MovedOnWithoutRecord ==
    /\ last.op = "submit_turn" /\ last.id = "s1"
    /\ Get(last.turn, "save_error", FALSE)
    /\ "s1" \in DOMAIN active
    /\ active["s1"].current_question_index = 1
    /\ last.result.next_question = "behavioral_0"
    /\ db["s1"].responses = <<>>

\* The transcript the document of session s holds, the empty sequence if
\* there is no document or it holds none
PersistedIn(store, s) ==
    IF s \in DOMAIN store /\ "conversation" \in DOMAIN store[s]
    THEN store[s].conversation
    ELSE <<>>

\* The transcript the document of session s holds now
Persisted(s) == PersistedIn(db, s)

\* C25, as stated: get_transcript changes no state and returns the
\* transcript of the active entry if the session has one, otherwise the
\* transcript of the persisted document, and the empty sequence when
\* neither exists.
C25_TranscriptReadThrough ==
    [][(Served /\ last'.op = "get_transcript") =>
          /\ active' = active /\ db' = db
          /\ last'.result.conversation =
                 IF last'.id \in DOMAIN active
                 THEN active[last'.id].conversation
                 ELSE Persisted(last'.id)]_vars

\* C25, amended: get_transcript changes no state and returns the transcript
\* of the active entry if the session has one; otherwise the transcript of
\* the persisted document if the read of the document succeeds; the read
\* failing, the error is printed and the empty sequence returned, as when
\* neither an entry nor a persisted transcript exists.
C25_TranscriptReadThroughUnlessReadFails ==
    [][(Served /\ last'.op = "get_transcript") =>
          /\ active' = active /\ db' = db
          /\ last'.status = 200
          /\ last'.result.conversation =
                 IF last'.id \in DOMAIN active
                 THEN active[last'.id].conversation
                 ELSE IF last'.turn.read_error THEN <<>>
                 ELSE Persisted(last'.id)]_vars

\* C25's case: the transcript of a session completed and torn down, read
\* from its document
C25_ReadFromDocument ==
    /\ last.op = "get_transcript"
    /\ last.id \notin DOMAIN active
    /\ ~last.turn.read_error
    /\ db[last.id].status = "completed"
    /\ Len(last.result.conversation) >= 3
    /\ last.result.conversation = db[last.id].conversation

\* The type of the AI reply event of an action
ReplyTypeOf(action) ==
    IF action = "repeat_question" THEN "ai_repeat"
    ELSE IF action \in {"clarify_question", "provide_example", "adjust_pace"}
    THEN "ai_clarification"
    ELSE "ai_response"

\* The events a turn appends after its AI reply: none if it stays on the
\* question, ai_transition and the ai_question of the next question if it
\* moves to one, ai_completion if it was the last question
EventsOfMovingOn(index_before, data) ==
    IF data.current_question_index = index_before THEN <<>>
    ELSE IF data.current_question_index < Len(data.questions)
    THEN <<"ai_transition", "ai_question">>
    ELSE <<"ai_completion">>

\* In the transcript every user_response event is immediately followed by
\* an AI reply event on the same question
EveryResponseAnswered(conversation) ==
    \A i \in 1..Len(conversation) :
        conversation[i].type = "user_response" =>
            /\ i < Len(conversation)
            /\ conversation[i + 1].type \in ReplyTypes
            /\ conversation[i + 1].question_id = conversation[i].question_id

\* C26: a turn appends its events in a fixed order: the user_response,
\* then one AI reply event (ai_repeat for repeat_question, ai_clarification
\* for the other meta actions, ai_response for every other action), then,
\* only if the turn advances, ai_transition and the ai_question of the next
\* question, or ai_completion.  So in every transcript, in memory or
\* persisted, each user_response is immediately followed by an AI reply.
C26_EventsInFixedOrder ==
    [][/\ \A s \in StoredIds :
             /\ s \in DOMAIN active' =>
                    EveryResponseAnswered(active'[s].conversation)
             /\ EveryResponseAnswered(PersistedIn(db', s))
       /\ ServedTurn =>
            LET before == active[last'.id].conversation
                after == last'.turn.data.conversation
                moving == EventsOfMovingOn(last'.turn.index_before,
                                           last'.turn.data)
            IN  /\ Len(after) = Len(before) + 2 + Len(moving)
                /\ SubSeq(after, 1, Len(before)) = before
                /\ after[Len(before) + 1].type = "user_response"
                /\ after[Len(before) + 1].text = last'.turn.response
                /\ after[Len(before) + 2].type
                       = ReplyTypeOf(last'.turn.action)
                /\ \A i \in 1..Len(moving) :
                       after[Len(before) + 2 + i].type = moving[i]
                /\ Len(moving) = 2 =>
                       after[Len(after)].question_id
                           = last'.turn.data.questions[
                                 last'.turn.data.current_question_index + 1]
      ]_vars

\* C26's case: a skip turn on the first question of s1: the user_response,
\* the ai_response, the ai_transition and the ai_question of the second
\* question
C26_SkipThenNextQuestion ==
    /\ last.op = "submit_turn" /\ last.id = "s1" /\ last.status = 200
    /\ last.turn.branch = "skip"
    /\ "s1" \in DOMAIN active
    /\ Len(active["s1"].conversation) = 5
    /\ active["s1"].conversation[2].type = "user_response"
    /\ active["s1"].conversation[3].type = "ai_response"
    /\ active["s1"].conversation[4].type = "ai_transition"
    /\ active["s1"].conversation[5] = QEvent("ai_question", "behavioral_0", "behavioral_0")

\* C27: a turn that advances while a next question exists reports that
\* question as next_question and its index as question_index, the index
\* the session's entry holds after the turn, reports no pending follow-up,
\* and leaves ai_transition and the ai_question of that question as the
\* last two events of the transcript.
C27_AdvanceReportsNextQuestion ==
    [][(ServedTurn
           /\ last'.turn.data.current_question_index
                  # last'.turn.index_before
           /\ last'.turn.index_before + 1
                  < Len(active[last'.id].questions)) =>
          LET i == last'.turn.index_before
              questions == active[last'.id].questions
              after == active'[last'.id].conversation
          IN  /\ last'.result.next_question = questions[i + 2]
              /\ last'.result.question_index = i + 1
              /\ active'[last'.id].current_question_index = i + 1
              /\ "has_follow_up" \in DOMAIN last'.result
              /\ ~last'.result.has_follow_up
              /\ "interview_completed" \notin DOMAIN last'.result
              /\ Len(after) >= 2
              /\ after[Len(after) - 1].type = "ai_transition"
              /\ after[Len(after)]
                     = QEvent("ai_question", questions[i + 2],
                              questions[i + 2])]_vars

\* C27's case: the follow-up cap moved s1 from its first question to its
\* second
C27_CapMovedToNextQuestion ==
    /\ last.op = "submit_turn" /\ last.id = "s1" /\ last.status = 200
    /\ last.turn.branch = "encourage"
    /\ last.turn.index_before = 0
    /\ Get(last.result, "next_question", "none") = "behavioral_0"
    /\ last.result.question_index = 1
    /\ ~last.result.has_follow_up

\* C28: a turn whose action is none of the meta, encourage-class, skip and
\* continue / move_next actions, the resolver saying keep listening, stays:
\* the index and the follow-up counter of the entry are as before, no
\* document changes, and the result reports a pending follow-up whose text
\* is the resolver's reply, the text of the AI reply event of the turn.
C28_UnrecognisedActionStays ==
    [][(ServedTurn
           /\ last'.turn.action
                  \notin MetaActions \cup EncourageActions
                         \cup AdvanceActions \cup {"skip_question"}
           /\ last'.turn.continue_listening) =>
          LET after == active'[last'.id].conversation
          IN  /\ active'[last'.id].current_question_index
                     = active[last'.id].current_question_index
              /\ active'[last'.id].follow_up_count
                     = active[last'.id].follow_up_count
              /\ db' = db
              /\ Get(last'.result, "has_follow_up", FALSE)
              /\ last'.result.follow_up_question = last'.result.ai_response
              /\ after[Len(after)].type = "ai_response"
              /\ after[Len(after)].text = last'.result.follow_up_question
              /\ Len(after) = Len(active[last'.id].conversation) + 2
              /\ "next_question" \notin DOMAIN last'.result
              /\ "interview_completed" \notin DOMAIN last'.result]_vars

\* C28's case: the gateway's judgment carries a tag nobody knows and keeps
\* listening, one follow-up already counted on the question
C28_UnknownTagAfterFollowUp ==
    /\ last.op = "submit_turn" /\ last.status = 200
    /\ last.turn.action = "unknown_tag"
    /\ last.turn.continue_listening
    /\ last.turn.follow_up_before = 1
    /\ active[last.id].follow_up_count = 1
    /\ last.result.has_follow_up

\* C29, as stated: only a turn that finishes the question through the
\* continue / move_next / not keep listening branch writes a response
\* record, so the number of records of a session never exceeds the current
\* question index of its entry.
C29_RecordsWithinIndex ==
    \A s \in DOMAIN active :
        Len(db[s].responses) <= active[s].current_question_index

\* The part of C29 on single turns: a turn that is a meta request, a
\* pending follow-up, a skip or an advance forced by the follow-up cap
\* leaves the records as they were.
C29_OnlyFinishWritesRecord ==
    [][(ServedTurn /\ last'.turn.branch # "finish") =>
          db'[last'.id].responses = db[last'.id].responses]_vars

\* The utterances of the model that have fewer than 3 words and match no
\* phrase of a meta intent or of skip
ShortPlainUtterances == {"Yes sure"}

\* C30: an utterance of fewer than 3 words that matches no phrase is taken
\* as encourage_elaboration with keep listening, the gateway not called,
\* and counts as a follow-up: on a question with no follow-up counted the
\* turn stays and leaves the counter at 1, with one counted it advances to
\* the next question and resets the counter.
C30_ShortAnswerCountsAsFollowUp ==
    [][(ServedTurn /\ last'.turn.response \in ShortPlainUtterances) =>
          /\ last'.turn.action = "encourage_elaboration"
          /\ last'.turn.continue_listening
          /\ ~last'.turn.gateway_called
          /\ active[last'.id].follow_up_count \in {0, 1}
          /\ IF active[last'.id].follow_up_count = 0
             THEN /\ active'[last'.id].current_question_index
                         = active[last'.id].current_question_index
                  /\ active'[last'.id].follow_up_count = 1
                  /\ last'.result.has_follow_up
                  /\ "next_question" \notin DOMAIN last'.result
             ELSE /\ last'.turn.data.current_question_index
                         = active[last'.id].current_question_index + 1
                  /\ last'.turn.data.follow_up_count = 0]_vars

\* C30's case: the second two-word utterance on the first question of s1
\* moved the session to its second question
C30_SecondShortAnswerAdvances ==
    /\ last.op = "submit_turn" /\ last.id = "s1" /\ last.status = 200
    /\ last.turn.response = "Yes sure"
    /\ "s1" \in DOMAIN active
    /\ active["s1"].current_question_index = 1
    /\ Len(active["s1"].conversation) = 7
    /\ active["s1"].conversation[2] = QEvent("user_response", "Yes sure", "tech_0")
    /\ active["s1"].conversation[4] = QEvent("user_response", "Yes sure", "tech_0")

\* C32, as stated: a turn result never reports a pending follow-up
\* together with an advance: whenever it carries next_question or
\* interview_completed = true, has_follow_up is false, also when the
\* follow-up cap forced the advance on the last question.
C32_NoFollowUpWithAdvance ==
    [][(ServedTurn
           /\ \/ "next_question" \in DOMAIN last'.result
              \/ Get(last'.result, "interview_completed", FALSE)) =>
          ~Get(last'.result, "has_follow_up", FALSE)]_vars

\* C33, as stated: a failed start mutates nothing.  Whenever start reports
\* failure, for an unknown id or a session with no question, the table has
\* no entry for the id that it did not have before, and the entries of the
\* other ids are as they were.
C33_FailedStartMutatesNothing ==
    [][(Served /\ last'.op = "start" /\ DOMAIN last'.result = {}) =>
          active' = active]_vars

\* e is an ai_question event
IsQuestionEvent(e) == e.type = "ai_question"

\* C34: between requests, the transcript of every active session whose
\* index i is below len(questions) holds exactly i + 1 ai_question events,
\* the k-th carrying the id of questions[k-1]; so the latest ai_question
\* event is the question the next utterance is judged against.
C34_QuestionsAskedMatchIndex ==
    \A s \in DOMAIN active :
        active[s].current_question_index < Len(active[s].questions) =>
            LET asked == SelectSeq(active[s].conversation, IsQuestionEvent)
            IN  /\ Len(asked) = active[s].current_question_index + 1
                /\ \A k \in 1..Len(asked) :
                       asked[k].question_id = active[s].questions[k]
                /\ active[s].conversation[LastAsked(active[s].conversation)]
                       .question_id
                       = active[s].questions[
                             active[s].current_question_index + 1]

\* C34's case: s1 on its second question, a turn heard on it, both
\* questions asked in the transcript
C34_TurnOnSecondQuestion ==
    /\ last.op = "submit_turn" /\ last.id = "s1" /\ last.status = 200
    /\ "s1" \in DOMAIN active
    /\ active["s1"].current_question_index = 1
    /\ Get(last.turn, "index_before", 0) = 1
    /\ Len(SelectSeq(active["s1"].conversation, IsQuestionEvent)) = 2

\* C35, as stated: a turn of one session that is waiting on the gateway
\* does not block the other sessions: while the gateway call of session a
\* is pending, a submit_turn for another active session b can start.
C35_OtherSessionNotBlocked ==
    \A a, b \in StoredIds :
        (a # b /\ GatewayPending(a) /\ b \in DOMAIN active
             /\ requests < MaxRequests) =>
            ENABLED TurnStarts(b)

=============================================================================
